---- MODULE Spec2Model ----
(***************************************************************************)
(* A model of the PixBeat5 audio analysis scripts                          *)
(*   Python/analyze_audio_squareboom.py  (the "richer" pipeline)           *)
(*   Python/analyze_audio.py             (the "simpler" pipeline)          *)
(*                                                                         *)
(* Conventions.  Times are integers counted in samples (1/sr second), so   *)
(* frames_to_time(i) = i*hop_length/sr seconds is the integer i*hop_length *)
(* and duration = len(y)/sr seconds is the integer len(y).  Real-valued    *)
(* comparisons of the code are cross-multiplied into integer comparisons   *)
(* (exact real arithmetic; floating-point rounding is not modelled).       *)
(* The results of librosa calls are inputs of the stage that uses them.    *)
(***************************************************************************)
EXTENDS Integers, Sequences, FiniteSets, TLC

VARIABLES
    pc,             \* position of the script
    y_len,          \* len(y): number of samples of the decoded signal
    \* section stage
    rms,            \* librosa.feature.rms(...)[0], run-length encoded:
                    \*   <<start frame, value>> pairs, starts increasing from 0
    threshold,      \* np.std(rms_diff) * 1.5, kept as its square num2/den2
    section_times,  \* list of <<frame, time, diff>>
    sections,       \* list of [t, label]
    current_label,  \* label of the section emitted last
    \* beat stage
    onset_any,      \* whether the onset envelope has a non-zero entry
    tempo_ret,      \* the tempo librosa.beat.beat_track returned
    beats_ret,      \* the beat frames librosa.beat.beat_track found
    tempo,          \* the emitted bpm
    beat_times,     \* the emitted beats
    \* onset stage and confidence
    onset_env,      \* librosa.onset.onset_strength(...)
    onset_frames,   \* librosa.onset.onset_detect(..., units='time')
    centroid_len,   \* len(spectral_centroids)
    onset_i,        \* index of the loop over onset_frames[:500]
    onsets,         \* list of [t, strength, frame]
    confidence,     \* the emitted confidence
    \* loudness stage
    loud_i,         \* index i of the loop over window starts
    loudness,       \* list of [t]
    \* key stage
    chroma_avg,     \* np.mean(chromagram, axis=1), 12 entries
    key_idx,        \* np.argmax(chroma_avg)
    key,            \* the pitch class name
    mode,           \* "maj" or "min"
    key_str,        \* the serialized key
    \* control flow of a run
    script,             \* "squareboom" or "simple"
    argc_ok,            \* len(sys.argv) == 3
    file_exists,        \* Path(audio_path).exists()
    librosa_available,  \* LIBROSA_AVAILABLE
    decodable,          \* librosa.load succeeds on the file
    out_writable,       \* open(output_path, 'w') succeeds
    decode_attempted,   \* librosa.load was called
    stages_done,        \* the analysis stages completed, in order
    raised,             \* the step that raised, or "none"
    written,            \* number of times the output file was written
    exit_code           \* -1 while running, else the exit status

sectionVars == <<rms, threshold, section_times, sections, current_label>>
beatVars == <<onset_any, tempo_ret, beats_ret, tempo, beat_times>>
onsetVars == <<onset_env, onset_frames, centroid_len, onset_i, onsets>>
confVars == <<confidence>>
loudVars == <<loud_i, loudness>>
keyVars == <<chroma_avg, key_idx, key, mode, key_str>>
envVars == <<argc_ok, file_exists, librosa_available, decodable, out_writable>>
runVars == <<decode_attempted, stages_done, raised, written, exit_code>>

vars == <<pc, y_len, script, sectionVars, beatVars, onsetVars, confVars,
          loudVars, keyVars, envVars, runVars>>

----------------------------------------------------------------------------
(* Program constants *)

sr == 44100
hop_length == 512
window_size == 43
HalfWindow == (window_size - 1) \div 2

(* Bounds of the model *)

MaxLevel == 2       \* rms values are 0..MaxLevel
MaxChanges == 2     \* number of level changes of the rms curve

DurationsSec == {20, 30}
ChangeSeconds == {8, 11, 13, 17, 27}

----------------------------------------------------------------------------
(* Helpers *)

Min(a, b) == IF a < b THEN a ELSE b
Max(a, b) == IF a > b THEN a ELSE b
Abs(a) == IF a < 0 THEN -a ELSE a

RECURSIVE SortedSeq(_)
SortedSeq(S) ==
    IF S = {} THEN <<>>
    ELSE LET m == CHOOSE a \in S : \A b \in S : a <= b
         IN <<m>> \o SortedSeq(S \ {m})

\* number of frames of a frame-indexed feature with hop 512 (centered frames)
FrameCount(len) == 1 + len \div hop_length

\* frames_to_time(i, sr=sr, hop_length=hop_length), in samples
frames_to_time(i) == i * hop_length

----------------------------------------------------------------------------
(* The rms curve (input of the section stage) *)

RmsLen(len) == FrameCount(len)

\* rms[j], 0 outside the array
RmsAt(curve, n, j) ==
    IF j < 0 \/ j >= n THEN 0
    ELSE LET ks == {k \in 1..Len(curve) : curve[k][1] <= j}
             k == CHOOSE a \in ks : \A b \in ks : b <= a
         IN curve[k][2]

\* sum(rms[0:i])
RECURSIVE PrefixFrom(_,_,_,_)
PrefixFrom(curve, n, i, k) ==
    IF k > Len(curve) THEN 0
    ELSE LET start == curve[k][1]
             stop == IF k = Len(curve) THEN n ELSE curve[k + 1][1]
         IN curve[k][2] * Max(0, Min(i, stop) - start)
            + PrefixFrom(curve, n, i, k + 1)

Prefix(curve, n, i) == PrefixFrom(curve, n, i, 1)

\* sum(rms[lo:hi]) with the slice clipped to the array
SliceSum(curve, n, lo, hi) ==
    Prefix(curve, n, Min(n, hi)) - Prefix(curve, n, Max(0, lo))

\* np.convolve(rms, np.ones(window_size)/window_size, mode='same')[i],
\* times window_size: the sum of rms over frames i-21 .. i+21
rms_smooth(curve, n, i) ==
    SliceSum(curve, n, i - HalfWindow, i + HalfWindow + 1)

\* np.diff(rms_smooth)[i], times window_size
rms_diff(curve, n, i) == rms_smooth(curve, n, i + 1) - rms_smooth(curve, n, i)

\* rms is constant over frames lo-21 .. hi+22, all inside the array: every
\* rms_diff[i], lo <= i <= hi, is then 0 (the two window sums are equal)
Flat(curve, n, lo, hi) ==
    \E k \in 1..Len(curve) :
        /\ curve[k][1] <= lo - HalfWindow
        /\ hi + HalfWindow + 1 < (IF k = Len(curve) THEN n ELSE curve[k + 1][1])

\* sum(rms_diff[lo:hi+1] ** pow); a flat stretch adds 0
RECURSIVE SumDiff(_,_,_,_,_)
SumDiff(curve, n, lo, hi, pow) ==
    IF lo > hi \/ Flat(curve, n, lo, hi) THEN 0
    ELSE IF lo = hi
         THEN LET d == rms_diff(curve, n, lo) IN IF pow = 2 THEN d * d ELSE d
         ELSE LET mid == (lo + hi) \div 2
              IN SumDiff(curve, n, lo, mid, pow)
                 + SumDiff(curve, n, mid + 1, hi, pow)

\* (np.std(rms_diff) * 1.5)^2 = 9 (m Q - S^2) / (4 m^2), m = len(rms_diff)
Threshold(curve, n) ==
    LET m == n - 1
        s == SumDiff(curve, n, 0, m - 1, 1)
        q == SumDiff(curve, n, 0, m - 1, 2)
    IN [num2 |-> 9 * (m * q - s * s), den2 |-> 4 * m * m]

\* abs(d) > threshold
Exceeds(d, thr) == d * d * thr.den2 > thr.num2

\* (i - section_times[-1][0]) > min_section_length, with
\* min_section_length = sr * 5 / hop_length
Spaced(i, last) == (i - last) * hop_length > sr * 5

\* body of the loop over frames (lines 119-123): the frame is appended when
\* abs(rms_diff[i]) > threshold and it is the first one or far enough from
\* the last one appended
ChangeBody(curve, n, thr, i, acc) ==
    LET d == rms_diff(curve, n, i)
        spaced == acc = <<>> \/ Spaced(i, acc[Len(acc)][1])
    IN IF spaced /\ Exceeds(d, thr)
       THEN Append(acc, <<i, frames_to_time(i), d>>)
       ELSE acc

\* for i in range(lo, hi + 1): body.  Over a flat stretch abs(0) > threshold
\* is false at every frame (threshold >= 0) and the body does nothing
RECURSIVE ScanFrames(_,_,_,_,_,_)
ScanFrames(curve, n, thr, lo, hi, acc) ==
    IF lo > hi \/ Flat(curve, n, lo, hi) THEN acc
    ELSE IF lo = hi THEN ChangeBody(curve, n, thr, lo, acc)
    ELSE LET mid == (lo + hi) \div 2
             left == ScanFrames(curve, n, thr, lo, mid, acc)
         IN IF left = <<>>
            THEN ScanFrames(curve, n, thr, mid + 1, hi, <<>>)
            ELSE ScanFrames(curve, n, thr, mid + 1, hi, left)

\* time < 10
TooEarlyAlt(time) == time < 5 * sr
TooEarly(time) == time < 10 * sr

\* local_energy > avg_energy * 1.3, with
\*   local_energy = mean(rms[max(0, f - 43) : min(len(rms), f + 43)])
\*   avg_energy = mean(rms)
LocalLo(f) == Max(0, f - window_size)
LocalHi(n, f) == Min(n, f + window_size)

IsLoud(curve, n, f) ==
    LET cnt == LocalHi(n, f) - LocalLo(f)
    IN 10 * SliceSum(curve, n, LocalLo(f), LocalHi(n, f)) * n
         > 13 * Prefix(curve, n, n) * cnt

IsQuiet(curve, n, f) ==
    LET cnt == LocalHi(n, f) - LocalLo(f)
    IN 10 * SliceSum(curve, n, LocalLo(f), LocalHi(n, f)) * n
         < 7 * Prefix(curve, n, n) * cnt

\* lines 135-140
LabelForAlt(loud, quiet, current) ==
    IF loud THEN "chorus"
    ELSE IF quiet THEN (IF current = "verse" THEN "bridge" ELSE "verse")
    ELSE "verse"
LabelFor(loud, quiet, current) ==
    IF loud THEN "chorus"
    ELSE IF quiet THEN (IF current = "verse" THEN "bridge" ELSE "verse")
    ELSE (IF current # "verse" THEN "verse" ELSE "bridge")

\* the labelling loop (lines 129-143); returns the sections list
RECURSIVE LabelLoop(_,_,_,_,_,_)
LabelLoop(curve, n, times, k, secs, current) ==
    IF k > Len(times) THEN [sections |-> secs, current_label |-> current]
    ELSE LET frame_idx == times[k][1]
             time == times[k][2]
         IN IF TooEarly(time)
            THEN LabelLoop(curve, n, times, k + 1, secs, current)
            ELSE LET label == LabelFor(IsLoud(curve, n, frame_idx),
                                       IsQuiet(curve, n, frame_idx), current)
                 IN LabelLoop(curve, n, times, k + 1,
                              Append(secs, [t |-> time, label |-> label]), label)

\* duration > 20
HasOutroAlt(len) == len >= 20 * sr
HasOutro(len) == len > 20 * sr

\* float(duration - 5)
OutroTime(len) == len - 5 * sr

----------------------------------------------------------------------------
(* Inputs of the section stage *)

ChangeFrames(n) ==
    {f \in {(s * sr) \div hop_length : s \in ChangeSeconds} : f < n}

\* curves with the level changes at the frames of T
CurvesAt(T) ==
    LET starts == <<0>> \o SortedSeq(T)
        k == Len(starts)
    IN {[i \in 1..k |-> <<starts[i], lv[i]>>] :
          lv \in {l \in [1..k -> 0..MaxLevel] :
                    \A i \in 1..(k - 1) : l[i] # l[i + 1]}}

RmsCurves(n) ==
    UNION {CurvesAt(T) :
             T \in {U \in SUBSET ChangeFrames(n) : Cardinality(U) <= MaxChanges}}

NoThreshold == [num2 |-> 0, den2 |-> 0]

\* the variables of a stage before the stage has run
SectionsIdle ==
    /\ rms = <<>>
    /\ threshold = NoThreshold
    /\ section_times = <<>>
    /\ sections = <<>>
    /\ current_label = "none"

BeatsIdle ==
    /\ onset_any = FALSE
    /\ tempo_ret = [kind |-> "none"]
    /\ beats_ret = <<>>
    /\ tempo = -1
    /\ beat_times = <<>>

OnsetsIdle ==
    /\ onset_env = <<>>
    /\ onset_frames = <<>>
    /\ centroid_len = 0
    /\ onset_i = 0
    /\ onsets = <<>>

ConfIdle == confidence = [kind |-> "none"]

LoudIdle ==
    /\ loud_i = 0
    /\ loudness = <<>>

KeyIdle ==
    /\ chroma_avg = <<>>
    /\ key_idx = -1
    /\ key = ""
    /\ mode = ""
    /\ key_str = ""

\* a run on an existing, decodable file with librosa installed
RunIdle ==
    /\ argc_ok = TRUE
    /\ file_exists = TRUE
    /\ librosa_available = TRUE
    /\ decodable = TRUE
    /\ out_writable = TRUE
    /\ decode_attempted = TRUE
    /\ stages_done = <<>>
    /\ raised = "none"
    /\ written = 0
    /\ exit_code = -1

----------------------------------------------------------------------------
(* The section stage of analyze_audio_squareboom *)

InitSections ==
    /\ pc = "sections"
    /\ y_len \in {d * sr : d \in DurationsSec}
    /\ rms \in RmsCurves(RmsLen(y_len))
    /\ threshold = NoThreshold
    /\ section_times = <<>>
    /\ sections = <<>>
    /\ current_label = "none"
    /\ script = "squareboom"
    /\ BeatsIdle /\ OnsetsIdle /\ ConfIdle /\ LoudIdle /\ KeyIdle /\ RunIdle

\* lines 105-114
SmoothEnergy ==
    /\ pc = "sections"
    /\ RmsLen(y_len) >= window_size
    /\ sections' = <<[t |-> 0, label |-> "intro"]>>
    /\ threshold' = Threshold(rms, RmsLen(y_len))
    /\ pc' = "changes"
    /\ UNCHANGED <<y_len, rms, section_times, current_label>>
    /\ UNCHANGED <<script, beatVars, onsetVars, confVars, loudVars, keyVars,
                   envVars, runVars>>

\* lines 116-123
FindChanges ==
    /\ pc = "changes"
    /\ section_times' =
         ScanFrames(rms, RmsLen(y_len), threshold, 1, RmsLen(y_len) - 2, <<>>)
    /\ pc' = "label"
    /\ UNCHANGED <<y_len, rms, threshold, sections, current_label>>
    /\ UNCHANGED <<script, beatVars, onsetVars, confVars, loudVars, keyVars,
                   envVars, runVars>>

\* lines 125-143
LabelSections ==
    /\ pc = "label"
    /\ LET r == LabelLoop(rms, RmsLen(y_len), section_times, 1, sections, "intro")
       IN /\ sections' = r.sections
          /\ current_label' = r.current_label
    /\ pc' = "outro"
    /\ UNCHANGED <<y_len, rms, threshold, section_times>>
    /\ UNCHANGED <<script, beatVars, onsetVars, confVars, loudVars, keyVars,
                   envVars, runVars>>

\* lines 145-147
AddOutro ==
    /\ pc = "outro"
    /\ sections' = IF HasOutro(y_len)
                   THEN Append(sections, [t |-> OutroTime(y_len), label |-> "outro"])
                   ELSE sections
    /\ pc' = "sections_done"
    /\ UNCHANGED <<y_len, rms, threshold, section_times, current_label>>
    /\ UNCHANGED <<script, beatVars, onsetVars, confVars, loudVars, keyVars,
                   envVars, runVars>>

NextSections == SmoothEnergy \/ FindChanges \/ LabelSections \/ AddOutro

SpecSections == InitSections /\ [][NextSections]_vars

----------------------------------------------------------------------------
(* Properties of the section stage *)

SectionsStarted == pc \in {"changes", "label", "outro", "sections_done"}
SectionsLabelled == pc \in {"outro", "sections_done"}

\* the indices of the sections between the leading intro and the outro
Middle == {k \in 1..Len(sections) : sections[k].label \notin {"intro", "outro"}}

\* the entry of section_times a middle section was emitted from
SourceOf(k) == {e \in 1..Len(section_times) : section_times[e][2] = sections[k].t}

\* C1: the section list starts with {0.0, intro}; when duration > 20 its last
\* element is {duration - 5, outro} and when duration <= 20 there is no outro
\* (so no candidate and duration <= 20 gives [{0.0, intro}] only); intro
\* occurs only at index 0 and outro only as the last element.
C1_IntroFirstOutroLast ==
    /\ SectionsStarted =>
         /\ Len(sections) >= 1
         /\ sections[1] = [t |-> 0, label |-> "intro"]
         /\ \A k \in 1..Len(sections) : sections[k].label = "intro" => k = 1
    /\ pc = "sections_done" =>
         /\ y_len > 20 * sr =>
              sections[Len(sections)] = [t |-> y_len - 5 * sr, label |-> "outro"]
         /\ y_len <= 20 * sr =>
              \A k \in 1..Len(sections) : sections[k].label # "outro"
         /\ (y_len <= 20 * sr /\ section_times = <<>>) =>
              sections = <<[t |-> 0, label |-> "intro"]>>
         /\ \A k \in 1..Len(sections) :
              sections[k].label = "outro" => k = Len(sections)

C1_Witness ==
    /\ pc = "sections_done"
    /\ y_len > 20 * sr
    /\ Len(sections) >= 3
    /\ sections[Len(sections)].label = "outro"

\* C2: the emitted section list is ordered by t, the appended outro included.
C2_OrderedByT ==
    pc = "sections_done" =>
        \A k \in 1..(Len(sections) - 1) : sections[k].t <= sections[k + 1].t

\* C9: every section between the intro and the outro comes from a frame where
\* |diff| > 1.5 * stddev(diff), has t >= 10 seconds, and two consecutive such
\* sections are more than 5 seconds (more than sr*5/hop frames) apart.
C9_BoundaryFilter ==
    SectionsLabelled =>
        /\ \A k \in Middle :
             /\ sections[k].t >= 10 * sr
             /\ \E e \in SourceOf(k) :
                  LET i == section_times[e][1]
                      d == section_times[e][3]
                  IN /\ i \in 1..(RmsLen(y_len) - 2)
                     /\ sections[k].t = i * hop_length
                     /\ d = rms_diff(rms, RmsLen(y_len), i)
                     /\ Abs(d) * Abs(d) * threshold.den2 > threshold.num2
        /\ \A k \in Middle :
             (k + 1) \in Middle =>
                 /\ sections[k + 1].t - sections[k].t > 5 * sr
                 /\ \E e \in SourceOf(k), g \in SourceOf(k + 1) :
                      (section_times[g][1] - section_times[e][1]) * hop_length
                          > sr * 5

C9_Witness ==
    /\ pc = "sections_done"
    /\ Cardinality(Middle) >= 2
    /\ Len(section_times) > Cardinality(Middle)

\* C10: a boundary whose local energy exceeds 1.3 x the mean energy is
\* labelled chorus; any other boundary is labelled bridge when the label
\* emitted before it is verse, and verse otherwise (the label before the
\* first boundary being intro).  So a bridge always follows a verse and no
\* two consecutive sections are both verse or both bridge.
C10_Labelling ==
    SectionsLabelled =>
        \A k \in Middle :
            /\ k > 1
            /\ \E e \in SourceOf(k) :
                 sections[k].label =
                     IF IsLoud(rms, RmsLen(y_len), section_times[e][1])
                     THEN "chorus"
                     ELSE IF sections[k - 1].label = "verse"
                          THEN "bridge" ELSE "verse"
            /\ sections[k].label = "bridge" => sections[k - 1].label = "verse"
            /\ sections[k].label \in {"verse", "bridge"} =>
                 sections[k - 1].label # sections[k].label

C10_Witness ==
    /\ pc = "sections_done"
    /\ \E k \in Middle : sections[k].label = "bridge"
    /\ \E k \in Middle : sections[k].label = "chorus"

----------------------------------------------------------------------------
(* The beat stage (squareboom lines 34-48, analyze_audio.py lines 35-47) *)

FallbackTempo == 120
BeatLimit == 1000

ExtraBeats == 1     \* beats the tracker finds beyond BeatLimit
BeatPeriods == {22, 43}         \* frames between two beats
TempoValues == {60, 120, 240}   \* BPM
BeatsDuration == 600            \* seconds

ScalarTempo(v) == [kind |-> "scalar", value |-> v]
ArrayTempo(a) == [kind |-> "array", value |-> a]

\* What librosa.beat.beat_track returns.  With no non-zero entry in the
\* onset envelope it reports tempo 0 and no beats, as a scalar or as an
\* array according to its version; otherwise a positive tempo and the beat
\* frames, strictly increasing, all below the frame count.
TempoResults(any) ==
    IF any
    THEN {ScalarTempo(v) : v \in TempoValues}
           \cup {ArrayTempo(<<v>>) : v \in TempoValues}
    ELSE {ScalarTempo(0), ArrayTempo(<<0>>), ArrayTempo(<<>>)}

BeatCounts == {0, 2, BeatLimit - 1, BeatLimit, BeatLimit + ExtraBeats}

BeatResults(any, len) ==
    IF any
    THEN {b \in {[k \in 1..c |-> k * p] : c \in BeatCounts, p \in BeatPeriods} :
            \A k \in 1..Len(b) : b[k] < FrameCount(len)}
    ELSE {<<>>}

\* lines 41-44: isinstance(tempo, np.ndarray), tempo.size > 0, float(...)
TempoToScalar(ret) ==
    IF ret.kind = "array"
    THEN IF Len(ret.value) > 0 THEN ret.value[1] ELSE FallbackTempo
    ELSE ret.value

\* seq[:limit]
Truncate(seq, limit) == SubSeq(seq, 1, Min(Len(seq), limit))

\* beat times of the beat frames (units='time', librosa.frames_to_time)
BeatTimes(frames) == [k \in 1..Len(frames) |-> frames_to_time(frames[k])]

InitBeats ==
    /\ pc = "beats"
    /\ y_len = BeatsDuration * sr
    /\ script \in {"squareboom", "simple"}
    /\ onset_any \in BOOLEAN
    /\ tempo_ret \in TempoResults(onset_any)
    /\ beats_ret \in BeatResults(onset_any, y_len)
    /\ tempo = -1
    /\ beat_times = <<>>
    /\ SectionsIdle /\ OnsetsIdle /\ ConfIdle /\ LoudIdle /\ KeyIdle /\ RunIdle

\* squareboom lines 40-44, analyze_audio.py lines 37-41
ConvertTempo ==
    /\ pc = "beats"
    /\ tempo' = TempoToScalar(tempo_ret)
    /\ pc' = "beat_times"
    /\ UNCHANGED <<y_len, script, onset_any, tempo_ret, beats_ret, beat_times>>
    /\ UNCHANGED <<sectionVars, onsetVars, confVars, loudVars, keyVars,
                   envVars, runVars>>

\* squareboom lines 46-48, analyze_audio.py lines 43-47
LimitBeats ==
    /\ pc = "beat_times"
    /\ beat_times' = Truncate(BeatTimes(beats_ret), BeatLimit)
    /\ pc' = "beats_done"
    /\ UNCHANGED <<y_len, script, onset_any, tempo_ret, beats_ret, tempo>>
    /\ UNCHANGED <<sectionVars, onsetVars, confVars, loudVars, keyVars,
                   envVars, runVars>>

NextBeats == ConvertTempo \/ LimitBeats

SpecBeats == InitBeats /\ [][NextBeats]_vars

\* C4: whatever the beat tracker returns, the emitted tempo is in (0, 400]
\* and is 120.0 when the envelope is degenerate (empty or all-zero), and the
\* beat list has at most 1000 entries, strictly increasing, in [0, duration].
C4_BeatTimeline ==
    pc = "beats_done" =>
        /\ tempo > 0 /\ tempo <= 400
        /\ ~onset_any => tempo = 120
        /\ Len(beat_times) <= 1000
        /\ \A k \in 1..(Len(beat_times) - 1) : beat_times[k] < beat_times[k + 1]
        /\ \A k \in 1..Len(beat_times) : 0 <= beat_times[k] /\ beat_times[k] <= y_len

----------------------------------------------------------------------------
(* The onset stage (squareboom lines 52-75) *)

OnsetLimit == 500

MaxEnv == 2         \* onset strengths are 0..MaxEnv
MaxEnvLen == 3      \* frames of the short envelopes
MaxPicks == 2       \* onsets picked on a short envelope

\* onset times (in samples) the peak picker may report on a short envelope
PickTimes == {0, 511, 512, 1024, 1536, 2048}

SeqsUpTo(S, n) == UNION {[1..m -> S] : m \in 0..n}

\* librosa.time_to_frames(t, sr=sr): floor(t * sr / 512), t in samples here
time_to_frames(t) == t \div hop_length

\* np.max(seq[lo-1:hi]), np.max(seq)
RECURSIVE MaxRange(_,_,_)
MaxRange(seq, lo, hi) ==
    IF lo = hi THEN seq[lo]
    ELSE LET mid == (lo + hi) \div 2
         IN Max(MaxRange(seq, lo, mid), MaxRange(seq, mid + 1, hi))

MaxOf(seq) == MaxRange(seq, 1, Len(seq))

\* float(onset_env[frame_idx] / np.max(onset_env)), the quotient num/den;
\* numpy gives nan for 0/0
Strength(env, frame_idx) ==
    [nan |-> MaxOf(env) = 0, num |-> env[frame_idx + 1], den |-> MaxOf(env)]

\* frame_idx < len(onset_env) and frame_idx < len(spectral_centroids)
FrameInRange(frame_idx, env, clen) == frame_idx < Len(env) /\ frame_idx < clen

\* the short inputs: every envelope, the picks ascending
ShortOnsetInputs ==
    {[env |-> e, picks |-> SortedSeq(T), clen |-> c] :
        e \in SeqsUpTo(0..MaxEnv, MaxEnvLen),
        T \in {U \in SUBSET PickTimes : Cardinality(U) <= MaxPicks},
        c \in 0..MaxEnvLen}

\* a long input: more than OnsetLimit onsets, one per frame
LongOnsetInputs ==
    {[env |-> [i \in 1..(OnsetLimit + 2) |-> 1 + (i % 2)],
      picks |-> [k \in 1..(OnsetLimit + 1) |-> frames_to_time(k - 1)],
      clen |-> OnsetLimit + 2]}

InitOnsets ==
    /\ pc = "onsets"
    /\ y_len = 0
    /\ script = "squareboom"
    /\ \E inp \in ShortOnsetInputs \cup LongOnsetInputs :
         /\ onset_env = inp.env
         /\ onset_frames = inp.picks
         /\ centroid_len = inp.clen
         /\ inp.clen \in {Len(inp.env), Len(inp.env) - 1}
    /\ onset_i = 0
    /\ onsets = <<>>
    /\ SectionsIdle /\ BeatsIdle /\ ConfIdle /\ LoudIdle /\ KeyIdle /\ RunIdle

\* one iteration of the loop of lines 65-75
OnsetStep ==
    /\ pc = "onsets"
    /\ onset_i < Len(Truncate(onset_frames, OnsetLimit))
    /\ LET onset_time == onset_frames[onset_i + 1]
           frame_idx == time_to_frames(onset_time)
       IN onsets' = IF FrameInRange(frame_idx, onset_env, centroid_len)
                    THEN Append(onsets, [t |-> onset_time,
                                         strength |-> Strength(onset_env, frame_idx),
                                         frame |-> frame_idx])
                    ELSE onsets
    /\ onset_i' = onset_i + 1
    /\ UNCHANGED <<pc, y_len, script, onset_env, onset_frames, centroid_len>>
    /\ UNCHANGED <<sectionVars, beatVars, confVars, loudVars, keyVars,
                   envVars, runVars>>

\* the loop ends
OnsetsEnd ==
    /\ pc = "onsets"
    /\ onset_i >= Len(Truncate(onset_frames, OnsetLimit))
    /\ pc' = "onsets_done"
    /\ UNCHANGED <<y_len, script, onsetVars>>
    /\ UNCHANGED <<sectionVars, beatVars, confVars, loudVars, keyVars,
                   envVars, runVars>>

NextOnsets == OnsetStep \/ OnsetsEnd

SpecOnsets == InitOnsets /\ [][NextOnsets]_vars

----------------------------------------------------------------------------
(* The confidence score (squareboom line 223, analyze_audio.py lines 88-89) *)

RECURSIVE SumSeq(_)
SumSeq(seq) == IF seq = <<>> THEN 0 ELSE seq[1] + SumSeq(Tail(seq))

Squares(seq) == [i \in 1..Len(seq) |-> seq[i] * seq[i]]

\* float(np.mean(onset_env) / (np.std(onset_env) + 1e-10)).  With S the sum,
\* Q the sum of squares and n the length of the envelope, mean = S/n and
\* std = sqrt(n*Q - S*S)/n; the value is kept by S, n and rad = n*Q - S*S:
\*     confidence = S / (sqrt(rad) + n * 1e-10)
RatioConfidence(env) ==
    LET n == Len(env)
        S == SumSeq(env)
        Q == SumSeq(Squares(env))
    IN [kind |-> "ratio", sum |-> S, n |-> n, rad |-> n * Q - S * S]

\* float(min(np.mean(onset_strength) / 0.5, 1.0)), the quotient num/den
CappedConfidence(env) ==
    LET n == Len(env)
        S == SumSeq(env)
    IN [kind |-> "capped", num |-> Min(2 * S, n), den |-> n]

\* confidence = 0
ConfIsZero(c) ==
    IF c.kind = "ratio" THEN c.sum = 0 ELSE c.num = 0

\* 0 <= confidence <= 1.  For the ratio, S <= sqrt(rad) + n*1e-10 exactly
\* when S*S <= rad: the envelope entries are integers, so S*S > rad gives
\* S - sqrt(rad) = (S*S - rad)/(S + sqrt(rad)) >= 1/(2S), far above n*1e-10.
ConfInUnit(c) ==
    IF c.kind = "ratio"
    THEN c.sum >= 0 /\ c.sum * c.sum <= c.rad
    ELSE 0 <= c.num /\ c.num <= c.den

InitConf ==
    /\ pc = "confidence"
    /\ y_len = 0
    /\ script \in {"squareboom", "simple"}
    /\ onset_env \in SeqsUpTo(0..MaxEnv, MaxEnvLen) \ {<<>>}
    /\ onset_frames = <<>>
    /\ centroid_len = 0
    /\ onset_i = 0
    /\ onsets = <<>>
    /\ confidence = [kind |-> "none"]
    /\ SectionsIdle /\ BeatsIdle /\ LoudIdle /\ KeyIdle /\ RunIdle

\* squareboom line 223
ConfidenceSquareboom ==
    /\ pc = "confidence"
    /\ script = "squareboom"
    /\ confidence' = RatioConfidence(onset_env)
    /\ pc' = "confidence_done"
    /\ UNCHANGED <<y_len, script, onsetVars>>
    /\ UNCHANGED <<sectionVars, beatVars, loudVars, keyVars, envVars, runVars>>

\* analyze_audio.py lines 87-89
ConfidenceSimple ==
    /\ pc = "confidence"
    /\ script = "simple"
    /\ confidence' = CappedConfidence(onset_env)
    /\ pc' = "confidence_done"
    /\ UNCHANGED <<y_len, script, onsetVars>>
    /\ UNCHANGED <<sectionVars, beatVars, loudVars, keyVars, envVars, runVars>>

NextConf == ConfidenceSquareboom \/ ConfidenceSimple

SpecConf == InitConf /\ [][NextConf]_vars

\* C7: the confidence of both pipelines lies in [0, 1] for every
\* non-negative onset envelope, and an all-zero envelope gives 0.
C7_ConfidenceInUnit ==
    pc = "confidence_done" =>
        /\ ConfInUnit(confidence)
        /\ (\A i \in 1..Len(onset_env) : onset_env[i] = 0) => ConfIsZero(confidence)

----------------------------------------------------------------------------
(* The loudness stage (squareboom lines 152-164) *)

MaxHops == 10       \* signal lengths go up to MaxHops + 1 hops

\* int(sr * 0.4)
window_samples == (sr * 4) \div 10

\* window_samples // 2
LoudHop == window_samples \div 2

\* len(y) - window_samples, the stop of the range
LoudStop(len) == len - window_samples

\* signals at least one window long
SignalLengths ==
    {q * LoudHop + r : q \in 2..MaxHops, r \in {0, 1, LoudHop - 1}}

InitLoud ==
    /\ pc = "loudness"
    /\ y_len \in SignalLengths
    /\ script = "squareboom"
    /\ loud_i = 0
    /\ loudness = <<>>
    /\ SectionsIdle /\ BeatsIdle /\ OnsetsIdle /\ ConfIdle /\ KeyIdle /\ RunIdle

\* one iteration of the loop of lines 156-164 (the lufs value depends on
\* the samples of the window and is not kept)
LoudStep ==
    /\ pc = "loudness"
    /\ loud_i < LoudStop(y_len)
    /\ loudness' = Append(loudness, [t |-> loud_i])
    /\ loud_i' = loud_i + LoudHop
    /\ UNCHANGED <<pc, y_len, script>>
    /\ UNCHANGED <<sectionVars, beatVars, onsetVars, confVars, keyVars,
                   envVars, runVars>>

\* the range is exhausted
LoudEnd ==
    /\ pc = "loudness"
    /\ loud_i >= LoudStop(y_len)
    /\ pc' = "loudness_done"
    /\ UNCHANGED <<y_len, script, loudVars>>
    /\ UNCHANGED <<sectionVars, beatVars, onsetVars, confVars, keyVars,
                   envVars, runVars>>

NextLoud == LoudStep \/ LoudEnd

SpecLoud == InitLoud /\ [][NextLoud]_vars

\* C6: for every signal length the samples are at t_k = k * (window/2),
\* k = 0, 1, 2, ... (window = int(sr*0.4) samples, hop = window//2), one per
\* window position, and the windows together cover [0, duration).
C6_LoudnessCovers ==
    pc = "loudness_done" =>
        /\ \A k \in 1..Len(loudness) : loudness[k].t = (k - 1) * LoudHop
        /\ \A k \in 0..(MaxHops + 1) :
             k * LoudHop + window_samples <= y_len =>
                 \E j \in 1..Len(loudness) : loudness[j].t = k * LoudHop
        /\ \A x \in {0, y_len - 1} :
             (0 <= x /\ x < y_len) =>
                 \E j \in 1..Len(loudness) :
                     loudness[j].t <= x /\ x < loudness[j].t + window_samples

----------------------------------------------------------------------------
(* The key stage (squareboom lines 172-190 and 213) *)

MaxChroma == 2      \* averaged chroma energies are 0..MaxChroma
MaxPeaks == 3       \* pitch classes with non-zero energy

\* list(key_profiles.keys())
KeyNames == <<"C", "C#", "D", "D#", "E", "F", "F#", "G", "G#", "A", "A#", "B">>

\* np.argmax(v): the index (from 0) of the first largest entry
RECURSIVE ArgMaxFrom(_,_,_)
ArgMaxFrom(v, i, best) ==
    IF i > Len(v) THEN best - 1
    ELSE ArgMaxFrom(v, i + 1, IF v[i] > v[best] THEN i ELSE best)

ArgMax(v) == ArgMaxFrom(v, 2, 1)

\* (key_idx + 4) % 12 and (key_idx + 3) % 12
third_idx(k) == (k + 4) % 12
minor_third_idx(k) == (k + 3) % 12

\* lines 187-190
ModeOfAlt(v, k) ==
    IF v[third_idx(k) + 1] >= v[minor_third_idx(k) + 1] THEN "maj" ELSE "min"
ModeOf(v, k) ==
    IF v[third_idx(k) + 1] > v[minor_third_idx(k) + 1] THEN "maj" ELSE "min"

\* f"{key}:{mode}"
FormatKey(k, m) == k \o ":" \o m

\* chroma vectors with energy in the pitch classes of P only
ChromaOn(P) ==
    {[i \in 1..12 |-> IF (i - 1) \in P THEN e[i - 1] ELSE 0] :
        e \in [P -> 1..MaxChroma]}

\* the sets of pitch classes that carry energy
PeakSets == {U \in SUBSET (0..11) : Cardinality(U) <= MaxPeaks}

InitKey ==
    /\ pc = "key"
    /\ y_len = 0
    /\ script = "squareboom"
    /\ \E P \in PeakSets : chroma_avg \in ChromaOn(P)
    /\ key_idx = -1
    /\ key = ""
    /\ mode = ""
    /\ key_str = ""
    /\ SectionsIdle /\ BeatsIdle /\ OnsetsIdle /\ ConfIdle /\ LoudIdle /\ RunIdle

\* lines 179-181
PickTonic ==
    /\ pc = "key"
    /\ key_idx' = ArgMax(chroma_avg)
    /\ key' = KeyNames[ArgMax(chroma_avg) + 1]
    /\ pc' = "mode"
    /\ UNCHANGED <<y_len, script, chroma_avg, mode, key_str>>
    /\ UNCHANGED <<sectionVars, beatVars, onsetVars, confVars, loudVars,
                   envVars, runVars>>

\* lines 183-190
PickMode ==
    /\ pc = "mode"
    /\ mode' = ModeOf(chroma_avg, key_idx)
    /\ pc' = "compile"
    /\ UNCHANGED <<y_len, script, chroma_avg, key_idx, key, key_str>>
    /\ UNCHANGED <<sectionVars, beatVars, onsetVars, confVars, loudVars,
                   envVars, runVars>>

\* line 213
CompileKey ==
    /\ pc = "compile"
    /\ key_str' = FormatKey(key, mode)
    /\ pc' = "key_done"
    /\ UNCHANGED <<y_len, script, chroma_avg, key_idx, key, mode>>
    /\ UNCHANGED <<sectionVars, beatVars, onsetVars, confVars, loudVars,
                   envVars, runVars>>

NextKey == PickTonic \/ PickMode \/ CompileKey

SpecKey == InitKey /\ [][NextKey]_vars

PitchClasses ==
    {"C", "C#", "D", "D#", "E", "F", "F#", "G", "G#", "A", "A#", "B"}

\* the position (from 0) of a pitch class in C, C#, D, ..., B
PitchIndex(name) == CHOOSE i \in 0..11 : KeyNames[i + 1] = name

----------------------------------------------------------------------------
(* A run of a script: the __main__ block and the analysis function         *)
(* (squareboom lines 20-29, 227-251; analyze_audio.py lines 19-31, 103-147) *)

\* the analysis stages between librosa.load and the write of the output
Stages(s) ==
    IF s = "squareboom"
    THEN <<"beats", "onsets", "sections", "loudness", "key", "metadata">>
    ELSE <<"beats", "energy", "genre", "key", "mood", "confidence">>

StageNames(s) == {Stages(s)[k] : k \in 1..Len(Stages(s))}

\* where the script goes once the stages of `done` have completed: the
\* statements run in order, the write comes after the last stage
AfterStageAlt(s, done) ==
    IF Len(done) >= Len(Stages(s)) - 1 THEN "write" ELSE "stage"
AfterStage(s, done) ==
    IF Len(done) = Len(Stages(s)) THEN "write" ELSE "stage"

\* sys.exit(status)
Exit(status) ==
    /\ exit_code' = status
    /\ pc' = "exited"

InitRun ==
    /\ pc = "main"
    /\ y_len = 0
    /\ script \in {"squareboom", "simple"}
    /\ argc_ok \in BOOLEAN
    /\ file_exists \in BOOLEAN
    /\ librosa_available \in BOOLEAN
    /\ decodable \in BOOLEAN
    /\ out_writable \in BOOLEAN
    /\ decode_attempted = FALSE
    /\ stages_done = <<>>
    /\ raised = "none"
    /\ written = 0
    /\ exit_code = -1
    /\ SectionsIdle /\ BeatsIdle /\ OnsetsIdle /\ ConfIdle /\ LoudIdle /\ KeyIdle

restOfRun == <<y_len, script, sectionVars, beatVars, onsetVars, confVars,
               loudVars, keyVars, envVars>>

\* squareboom lines 240-242, analyze_audio.py lines 136-138
CheckArgs ==
    /\ pc = "main"
    /\ IF argc_ok THEN pc' = "exists" /\ UNCHANGED exit_code ELSE Exit(1)
    /\ UNCHANGED <<decode_attempted, stages_done, raised, written>>
    /\ UNCHANGED restOfRun

\* squareboom lines 247-249, analyze_audio.py lines 143-145
CheckInput ==
    /\ pc = "exists"
    /\ IF file_exists THEN pc' = "analyze" /\ UNCHANGED exit_code ELSE Exit(1)
    /\ UNCHANGED <<decode_attempted, stages_done, raised, written>>
    /\ UNCHANGED restOfRun

\* squareboom lines 23-25: without librosa the script gives up;
\* analyze_audio.py lines 22-25: without librosa analyze_simple writes a stub
CheckBackend ==
    /\ pc = "analyze"
    /\ IF librosa_available
       THEN pc' = "load" /\ UNCHANGED exit_code
       ELSE IF script = "squareboom"
            THEN Exit(1)
            ELSE pc' = "write" /\ UNCHANGED exit_code
    /\ UNCHANGED <<decode_attempted, stages_done, raised, written>>
    /\ UNCHANGED restOfRun

\* librosa.load inside the try (squareboom line 29, analyze_audio.py line 31);
\* an exception goes to the handler, which exits 1
Load ==
    /\ pc = "load"
    /\ decode_attempted' = TRUE
    /\ IF decodable
       THEN pc' = AfterStage(script, stages_done) /\ UNCHANGED <<exit_code, raised>>
       ELSE raised' = "load" /\ Exit(1)
    /\ UNCHANGED <<stages_done, written>>
    /\ UNCHANGED restOfRun

\* the next stage completes
StageCompletes ==
    /\ pc = "stage"
    /\ Len(stages_done) < Len(Stages(script))
    /\ LET done == Append(stages_done, Stages(script)[Len(stages_done) + 1])
       IN /\ stages_done' = done
          /\ pc' = AfterStage(script, done)
    /\ UNCHANGED <<decode_attempted, raised, written, exit_code>>
    /\ UNCHANGED restOfRun

\* the next stage raises: except Exception ... sys.exit(1)
StageRaises ==
    /\ pc = "stage"
    /\ Len(stages_done) < Len(Stages(script))
    /\ raised' = Stages(script)[Len(stages_done) + 1]
    /\ Exit(1)
    /\ UNCHANGED <<decode_attempted, stages_done, written>>
    /\ UNCHANGED restOfRun

\* with open(output_path, 'w') as f: json.dump(results, f, indent=2)
\* (squareboom lines 228-229, analyze_audio.py lines 104-105 and 130-131);
\* a failing open is caught by the handler or, in analyze_simple, ends the
\* interpreter: status 1 either way
WriteOutput ==
    /\ pc = "write"
    /\ IF out_writable
       THEN /\ written' = written + 1
            /\ pc' = "report"
            /\ UNCHANGED <<exit_code, raised>>
       ELSE /\ raised' = "write"
            /\ Exit(1)
            /\ UNCHANGED written
    /\ UNCHANGED <<decode_attempted, stages_done>>
    /\ UNCHANGED restOfRun

\* the closing print succeeds and the script ends (squareboom line 231,
\* analyze_audio.py lines 107 and 133)
ReportCompletes ==
    /\ pc = "report"
    /\ Exit(0)
    /\ UNCHANGED <<decode_attempted, stages_done, raised, written>>
    /\ UNCHANGED restOfRun

\* the closing print raises (a closed stdout, a console encoding without
\* the check mark of line 231): status 1, after the file was written
ReportRaises ==
    /\ pc = "report"
    /\ raised' = "report"
    /\ Exit(1)
    /\ UNCHANGED <<decode_attempted, stages_done, written>>
    /\ UNCHANGED restOfRun

NextRun ==
    \/ CheckArgs \/ CheckInput \/ CheckBackend \/ Load
    \/ StageCompletes \/ StageRaises \/ WriteOutput
    \/ ReportCompletes \/ ReportRaises

SpecRun == InitRun /\ [][NextRun]_vars

Exited == exit_code # -1

\* decoding or an analysis stage raised
AnalysisRaised == raised \in {"load"} \cup StageNames(script)

====
